---- MODULE Spec2Model ----
(***************************************************************************)
(* Model of replicate_batch_process/global_concurrency_manager.py: the     *)
(* process-wide GlobalReplicateConcurrencyManager singleton, its           *)
(* credential resolution, the asyncio.Semaphore it hands to workers, its   *)
(* usage statistics and its status snapshot.                               *)
(*                                                                         *)
(* In every specification but SpecPar the manager's operations run one at *)
(* a time (asyncio tasks: no method of the manager awaits, so each call is *)
(* atomic).                                                                *)
(*   Spec         the gate: constructor calls, update_credentials, status  *)
(*                reads and workers interleaving at acquire / release.     *)
(*   SpecStats    the manager's own operations as time passes:             *)
(*                constructor calls, acquire_/release_global_quota,        *)
(*                update_credentials, status reads.                        *)
(*   SpecLive     Spec, every worker that holds a slot releasing it in the *)
(*                end.                                                     *)
(*   SpecUse      one gate in use as time passes: constructor calls,       *)
(*                workers, the quota bookkeeping, token updates, status    *)
(*                reads.                                                   *)
(*   SpecTimed    the test's run in time: tasks started together, each     *)
(*                keeping its slot for HoldTime.                           *)
(*   SpecRelease  Spec, with tasks that call release() on the semaphore    *)
(*                without holding a slot.                                  *)
(*   SpecResolve  _get_credentials as a pure function of its arguments and *)
(*                the environment.                                         *)
(*   SpecLog      the calls that print a token, with tokens of every       *)
(*                length up to MaxTokenLen.                                *)
(*   SpecPar      the first constructor calls made by parallel threads,    *)
(*                __new__ and __init__ interleaved statement by statement. *)
(***************************************************************************)
EXTENDS Integers, Sequences, FiniteSets, TLC

\* ------------------------------------------------------------------ bounds
NumWorkers == 2
NumThreads == 2
MaxLimit == 1
MaxSems == 2
MaxRequests == 2
MaxTime == 1
MaxEnvLen == 2
MaxStray == 1
MaxTokenLen == 13

\* ------------------------------------------------------- program constants
\* max_concurrent = 60 when neither the caller nor the environment gives one
DEFAULT_MAX_CONCURRENT == 60
\* `await asyncio.sleep(1)`: the time a test task keeps its slot
HoldTime == 1
\* `api_token[:12]`: the characters of a token that are printed
TOKEN_SHOWN == 12

\* ------------------------------------------------------------------ values
\* Python's None, for an Optional[str], an Optional[int] or an attribute that
\* holds a record; Some(v) is a str or int that is present
None == << >>
Some(v) == <<v>>
Val(o) == o[1]
\* an attribute that refers to no object (object ids start at 1)
NoObj == 0
\* how a call ends: it returns ret, or raises exc
NoExc == "ok"
ValueError == "ValueError"
RuntimeError == "RuntimeError"
ZeroDivisionError == "ZeroDivisionError"
Return(v) == [exc |-> NoExc, ret |-> v]
Raise(e) == [exc |-> e, ret |-> None]

Workers == 1..NumWorkers
Threads == 1..NumThreads
InstIds == 1..NumThreads
SemIds == 1..MaxSems

\* API tokens are strings: sequences of characters
TokA == <<"r", "8", "a">>
TokE == <<"r", "8", "e">>
EmptyStr == << >>
\* the test's token, and its prefixes of every length up to MaxTokenLen
TestToken ==
    <<"r", "8", "_", "t", "e", "s", "t", "_", "t", "o", "k", "e", "n", "_",
      "1", "2", "3", "4", "5", "6", "7", "8", "9", "0",
      "1", "2", "3", "4", "5", "6", "7", "8", "9", "0">>
LogTokens == {SubSeq(TestToken, 1, n) : n \in 1..MaxTokenLen}
\* what a caller can pass as api_token
TokenArgs == {None, Some(EmptyStr), Some(TokA)}
\* what os.getenv("REPLICATE_API_TOKEN") can give
EnvTokens == {None, Some(EmptyStr), Some(TokE)}
\* what a caller can pass as global_max_concurrent
LimitArgs == {None} \cup {Some(n) : n \in -1..MaxLimit}

\* text of REPLICATE_GLOBAL_MAX_CONCURRENT: every string over EnvChars of at
\* most MaxEnvLen characters
EnvChars == {"-", "0", "2", "x"}
EnvTexts == UNION {[1..n -> EnvChars] : n \in 0..MaxEnvLen}
EnvLimits == {None} \cup {Some(t) : t \in EnvTexts}

\* ------------------------------------------------------------ Python int()
DigitChars == {"0", "1", "2", "3", "4", "5", "6", "7", "8", "9"}

DigitVal(c) ==
    CASE c = "0" -> 0 [] c = "1" -> 1 [] c = "2" -> 2 [] c = "3" -> 3
      [] c = "4" -> 4 [] c = "5" -> 5 [] c = "6" -> 6 [] c = "7" -> 7
      [] c = "8" -> 8 [] c = "9" -> 9

RECURSIVE DigitsValue(_)
DigitsValue(s) ==
    IF s = << >> THEN 0
    ELSE 10 * DigitsValue(SubSeq(s, 1, Len(s) - 1)) + DigitVal(s[Len(s)])

\* int(text) on a decimal string: an optional sign, then one or more digits;
\* anything else raises ValueError
ParseInt(s) ==
    LET signed == s # << >> /\ s[1] \in {"-", "+"}
        body == IF signed THEN Tail(s) ELSE s
    IN  IF body = << >> \/ \E i \in 1..Len(body) : body[i] \notin DigitChars
        THEN Raise(ValueError)
        ELSE IF signed /\ s[1] = "-" THEN Return(0 - DigitsValue(body))
             ELSE Return(DigitsValue(body))

\* Python truthiness: `if api_token`, `if env_concurrent` on an Optional[str]
TruthyStr(o) == o # None /\ Val(o) # EmptyStr
\* `if global_max_concurrent` on an Optional[int]
MutTruthyInt(o) == o # None

TruthyInt(o) == o # None /\ Val(o) # 0

\* --------------------------------------------------------------- variables
VARIABLES
    env_token,      \* os.environ["REPLICATE_API_TOKEN"] (None: unset)
    env_limit,      \* os.environ["REPLICATE_GLOBAL_MAX_CONCURRENT"] (None: unset)
    logged,         \* standard output: the last line printed that shows a
                    \* token (None: no such line yet)
    cls_instance,   \* GlobalReplicateConcurrencyManager._instance
    inst,           \* InstIds -> the attributes of each manager object
    ninst,          \* number of manager objects allocated so far
    sems,           \* the asyncio.Semaphore objects created so far, by id
    wpc,            \* Workers -> where each worker task is
    wsem,           \* Workers -> the semaphore reference the worker holds
    since,          \* Workers -> the time the worker took its slot (None: it
                    \* holds none)
    now,            \* time.time()
    result,         \* the call just made, if it was a constructor or status
                    \* call or one that raised: what it returned or raised
    tpc,            \* Threads -> statement the thread is at (SpecPar)
    targs,          \* Threads -> arguments of the thread's constructor call
    tself,          \* Threads -> the object __new__ returned to the thread
    resolved,       \* the last _get_credentials call: arguments and outcome
                    \* (SpecResolve)
    updated,        \* history: what update_credentials has replaced so far:
                    \* "nothing", the "token" only, or the "limit" too
    first,          \* history: handle and credentials of the first successful
                    \* constructor call, and where it was made from, kept
                    \* until update_credentials replaces any of them
    scoped          \* history: the last step was worker w's acquire / abort

vars == <<env_token, env_limit, logged, cls_instance, inst, ninst, sems, wpc, wsem,
          since, now, result, tpc, targs, tself, resolved, updated, first, scoped>>

\* the process's environment and output
envVars == <<env_token, env_limit, logged>>
\* what only SpecPar and SpecResolve move
threadVars == <<tpc, targs, tself, resolved>>
workerVars == <<wpc, wsem, since>>

\* ------------------------------------------------------ ReplicateCredentials
\* the dataclass: __post_init__ raises ValueError on a falsy api_token
ReplicateCredentials(api_token, global_max_concurrent) ==
    IF ~TruthyStr(api_token) THEN Raise(ValueError)
    ELSE Return([api_token |-> Val(api_token),
                 global_max_concurrent |-> global_max_concurrent])

\* ---------------------------------------------------------- _get_credentials
\* the token after priority 1 (payload) and priority 2 (environment)
MutResolveToken(payload_api_token) ==
    IF TruthyStr(env_token) THEN env_token ELSE payload_api_token

ResolveToken(payload_api_token) ==
    IF ~TruthyStr(payload_api_token) THEN env_token ELSE payload_api_token

\* the limit after priority 1 (payload), priority 2 (environment), default
ResolveLimit(payload_max_concurrent) ==
    IF payload_max_concurrent = None
    THEN IF TruthyStr(env_limit)
         THEN IF ParseInt(Val(env_limit)).exc = ValueError
              THEN DEFAULT_MAX_CONCURRENT
              ELSE ParseInt(Val(env_limit)).ret
         ELSE DEFAULT_MAX_CONCURRENT
    ELSE Val(payload_max_concurrent)

\* credentials, or ValueError when no token is found
GetCredentials(payload_api_token, payload_max_concurrent) ==
    LET api_token == ResolveToken(payload_api_token)
        max_concurrent == ResolveLimit(payload_max_concurrent)
    IN  IF ~TruthyStr(api_token) THEN Raise(ValueError)
        ELSE ReplicateCredentials(api_token, max_concurrent)

\* ------------------------------------------------------------------- printing
\* f"   API token: {api_token[:12]}...": the text after the label
TokenLine(api_token) ==
    SubSeq(api_token, 1,
           IF Len(api_token) < TOKEN_SHOWN THEN Len(api_token) ELSE TOKEN_SHOWN)
        \o <<".", ".", ".">>

\* ------------------------------------------------------------ manager object
\* self._stats as __init__ sets it
FreshStats ==
    [total_requests |-> 0, concurrent_requests |-> 0,
     max_concurrent_reached |-> 0, created_at |-> now]

\* an object straight out of object.__new__: no _initialized, no _stats, and the
\* class attributes _credentials = None, _global_semaphore = None show through
NoAttrs ==
    [initialized |-> FALSE, stats |-> None, credentials |-> None,
     semaphore |-> NoObj]

\* self._credentials.global_max_concurrent
Limit(self) == inst[self].credentials.global_max_concurrent

\* `hasattr(self, '_initialized')`
MutAlreadyInitialized(self) == FALSE

AlreadyInitialized(self) == inst[self].initialized

\* the handle callers hold: the singleton, once a constructor call has returned
Handle ==
    IF cls_instance # NoObj /\ inst[cls_instance].initialized
    THEN cls_instance ELSE NoObj

\* ------------------------------------------------------------ asyncio.Semaphore
\* Semaphore(value): raises ValueError when value < 0
MutSemaphoreRejects(value) == FALSE

SemaphoreRejects(value) == value < 0

MutNewSemaphore(value) ==
    [initial |-> value, value |-> value + 1, waiters |-> << >>]

\* `initial` keeps the value the semaphore was constructed with
NewSemaphore(value) == [initial |-> value, value |-> value, waiters |-> << >>]

\* Semaphore.locked(): no free slot, or tasks already queued
MutLocked(sem) == sem.value < 0 \/ sem.waiters # << >>

Locked(sem) == sem.value = 0 \/ sem.waiters # << >>

\* the workers inside `async with` on semaphore s
Holders(s) == {w \in Workers : wpc[w] = "holding" /\ wsem[w] = s}

\* ------------------------------------------------------- get_global_semaphore
MutGetGlobalSemaphore(self) ==
    IF inst[self].semaphore = NoObj THEN Raise(ValueError)
    ELSE Return(inst[self].semaphore)

GetGlobalSemaphore(self) ==
    IF inst[self].semaphore = NoObj THEN Raise(RuntimeError)
    ELSE Return(inst[self].semaphore)

\* ----------------------------------------------------------- get_global_status
\* (a / b) * 100 kept as the exact fraction num / den
Percentage(a, b) == [num |-> a * 100, den |-> b]

\* 'current_concurrent': global_max_concurrent - semaphore._value
CurrentConcurrent(self) ==
    inst[self].credentials.global_max_concurrent
        - sems[inst[self].semaphore].value

GlobalStatus(self) ==
    LET got == GetGlobalSemaphore(self)
        limit == inst[self].credentials.global_max_concurrent
        value == sems[got.ret].value
        stats == inst[self].stats
    IN  IF got.exc # NoExc THEN got
        ELSE IF limit = 0 THEN Raise(ZeroDivisionError)
        ELSE Return([global_max_concurrent |-> limit,
                     current_concurrent |-> CurrentConcurrent(self),
                     available_slots |-> value,
                     utilization_percentage |-> Percentage(limit - value, limit),
                     total_requests |-> stats.total_requests,
                     max_concurrent_reached |-> stats.max_concurrent_reached,
                     uptime_seconds |-> now - stats.created_at])

\* the record of a finished call: how it ended, the handle a constructor call
\* returned, the snapshot a status call returned
Called(op, exc, handle, status) ==
    [op |-> op, exc |-> exc, handle |-> handle, status |-> status]
NoCall == Called("none", NoExc, NoObj, None)

\* ----------------------------------------------------------------------- Init
InitManager ==
    /\ logged = None
    /\ cls_instance = NoObj
    /\ inst = [i \in InstIds |-> NoAttrs]
    /\ ninst = 0
    /\ sems = << >>
    /\ wpc = [w \in Workers |-> "idle"]
    /\ wsem = [w \in Workers |-> NoObj]
    /\ since = [w \in Workers |-> None]
    /\ now = 0
    /\ result = NoCall
    /\ tpc = [t \in Threads |-> "idle"]
    /\ targs = [t \in Threads |-> None]
    /\ tself = [t \in Threads |-> NoObj]
    /\ resolved = None
    /\ updated = "nothing"
    /\ first = None
    /\ scoped = None

Init ==
    /\ env_token \in {None, Some(TokE)}
    /\ env_limit \in {None, Some(<<"2">>)}
    /\ InitManager

\* ------------------------------------------------- __new__ and __init__ (whole)
\* the object __new__ returns: the one in cls._instance, made now if there is none
MutNewObject == ninst + 1

NewObject == IF cls_instance = NoObj THEN ninst + 1 ELSE cls_instance

\* how GlobalReplicateConcurrencyManager(api_token, global_max_concurrent) ends:
\* normally, or with the ValueError of _get_credentials or of asyncio.Semaphore
ConstructorExc(api_token, global_max_concurrent) ==
    LET self == NewObject
        creds == GetCredentials(api_token, global_max_concurrent)
    IN  IF AlreadyInitialized(self) THEN NoExc
        ELSE IF creds.exc # NoExc THEN creds.exc
        ELSE IF /\ inst[self].semaphore = NoObj
                /\ SemaphoreRejects(creds.ret.global_max_concurrent)
        THEN ValueError
        ELSE NoExc

\* what GlobalReplicateConcurrencyManager(api_token, global_max_concurrent) does,
\* called from `caller`: __new__, then __init__ on what it returned
Construct(api_token, global_max_concurrent, caller) ==
    LET self == NewObject
        creds == GetCredentials(api_token, global_max_concurrent)
        makes == inst[self].semaphore = NoObj
    IN  /\ self \in InstIds
        /\ cls_instance' = self
        /\ ninst' = IF cls_instance = NoObj THEN ninst + 1 ELSE ninst
        /\ IF AlreadyInitialized(self)
           THEN UNCHANGED <<inst, sems, env_token, logged, first>>
           ELSE IF creds.exc # NoExc
           THEN /\ inst' = [inst EXCEPT ![self].stats = FreshStats]
                /\ UNCHANGED <<sems, env_token, logged, first>>
           ELSE IF makes /\ SemaphoreRejects(creds.ret.global_max_concurrent)
           THEN /\ inst' = [inst EXCEPT ![self].stats = FreshStats,
                                        ![self].credentials = creds.ret]
                /\ UNCHANGED <<sems, env_token, logged, first>>
           ELSE /\ makes => Len(sems) < MaxSems
                /\ sems' = IF makes
                           THEN Append(sems, NewSemaphore(creds.ret.global_max_concurrent))
                           ELSE sems
                /\ inst' = [inst EXCEPT ![self] =
                              [initialized |-> TRUE,
                               stats |-> FreshStats,
                               credentials |-> creds.ret,
                               semaphore |-> IF makes THEN Len(sems) + 1
                                             ELSE inst[self].semaphore]]
                /\ env_token' = Some(creds.ret.api_token)
                /\ logged' = Some(TokenLine(creds.ret.api_token))
                /\ first' = IF first = None
                            THEN [handle |-> self, credentials |-> creds.ret,
                                  by |-> caller]
                            ELSE first

\* the constructor called directly or through create_global_manager
CreateGlobalManager(api_token, global_max_concurrent) ==
    LET exc == ConstructorExc(api_token, global_max_concurrent)
    IN  /\ Construct(api_token, global_max_concurrent, "create")
        /\ result' = Called("create", exc,
                            IF exc = NoExc THEN NewObject ELSE NoObj, None)
        /\ scoped' = None
        /\ UNCHANGED <<env_limit, workerVars, now, threadVars, updated>>

\* --------------------------------------------------------------- worker tasks
\* semaphore = manager.get_global_semaphore(), on the object in cls._instance
WorkerGetSemaphore(w) ==
    LET got == GetGlobalSemaphore(cls_instance)
    IN  /\ wpc[w] = "idle"
        /\ cls_instance # NoObj
        /\ IF got.exc # NoExc
           THEN /\ result' = Called("get_global_semaphore", got.exc, NoObj, None)
                /\ UNCHANGED <<wsem, wpc>>
           ELSE /\ wsem' = [wsem EXCEPT ![w] = got.ret]
                /\ wpc' = [wpc EXCEPT ![w] = "ready"]
                /\ result' = NoCall
        /\ scoped' = None
        /\ UNCHANGED <<envVars, cls_instance, inst, ninst, sems, since, now,
                       threadVars, updated, first>>

\* semaphore = get_global_semaphore(), the module-level function: the
\* constructor with no arguments, then get_global_semaphore on what it gave
ModuleGetGlobalSemaphore(w) ==
    LET exc == ConstructorExc(None, None)
    IN  /\ wpc[w] = "idle"
        /\ Construct(None, None, "module.get_global_semaphore")
        /\ IF exc # NoExc
           THEN /\ result' = Called("module.get_global_semaphore", exc, NoObj,
                                    None)
                /\ UNCHANGED <<wsem, wpc>>
           ELSE IF GetGlobalSemaphore(cls_instance)'.exc # NoExc
           THEN /\ result' = Called("module.get_global_semaphore",
                                    GetGlobalSemaphore(cls_instance)'.exc,
                                    NoObj, None)
                /\ UNCHANGED <<wsem, wpc>>
           ELSE /\ wsem' = [wsem EXCEPT
                              ![w] = GetGlobalSemaphore(cls_instance)'.ret]
                /\ wpc' = [wpc EXCEPT ![w] = "ready"]
                /\ result' = NoCall
        /\ scoped' = None
        /\ UNCHANGED <<env_limit, since, now, threadVars, updated>>

\* `async with semaphore:` entered: Semaphore.acquire() takes a slot, or queues
\* the task behind the ones already waiting
Acquire(w) ==
    /\ wpc[w] = "ready"
    /\ IF ~Locked(sems[wsem[w]])
       THEN /\ sems' = [sems EXCEPT ![wsem[w]].value = @ - 1]
            /\ wpc' = [wpc EXCEPT ![w] = "holding"]
            /\ since' = [since EXCEPT ![w] = Some(now)]
            /\ scoped' = [w |-> w, pre |-> CurrentConcurrent(Handle),
                          exited |-> FALSE]
       ELSE /\ sems' = [sems EXCEPT ![wsem[w]].waiters = Append(@, w)]
            /\ wpc' = [wpc EXCEPT ![w] = "waiting"]
            /\ scoped' = None
            /\ UNCHANGED since
    /\ result' = NoCall
    /\ UNCHANGED <<envVars, cls_instance, inst, ninst, wsem, now,
                   threadVars, updated, first>>

\* Semaphore.release(): the slot goes to the first queued task, or back to the
\* free count
MutSemRelease(sem) ==
    [sem |-> [sem EXCEPT !.value = @ + 1], woken |-> NoObj]

SemRelease(sem) ==
    IF sem.waiters # << >>
    THEN [sem |-> [sem EXCEPT !.waiters = Tail(@)], woken |-> Head(sem.waiters)]
    ELSE [sem |-> [sem EXCEPT !.value = @ + 1], woken |-> NoObj]

\* `async with` left, normally or by an exception of the protected operation:
\* __aexit__ releases either way
MutScopedExit(sem, raised) ==
    IF raised THEN [sem |-> sem, woken |-> NoObj] ELSE SemRelease(sem)

ScopedExit(sem, raised) == SemRelease(sem)

ExitScope(w, raised) ==
    LET out == ScopedExit(sems[wsem[w]], raised)
    IN  /\ wpc[w] = "holding"
        /\ sems' = [sems EXCEPT ![wsem[w]] = out.sem]
        /\ wpc' = [x \in Workers |->
                     IF x = w THEN "idle"
                     ELSE IF x = out.woken THEN "holding" ELSE wpc[x]]
        /\ wsem' = [wsem EXCEPT ![w] = NoObj]
        /\ since' = [x \in Workers |->
                       IF x = w THEN None
                       ELSE IF x = out.woken THEN Some(now) ELSE since[x]]
        /\ scoped' = IF raised /\ scoped # None /\ scoped.w = w /\ ~scoped.exited
                     THEN [scoped EXCEPT !.exited = TRUE]
                     ELSE None
        /\ result' = NoCall
        /\ UNCHANGED <<envVars, cls_instance, inst, ninst, now,
                       threadVars, updated, first>>

\* the protected operation completed
Release(w) == ExitScope(w, FALSE)

\* the protected operation raised
Abort(w) == ExitScope(w, TRUE)

\* semaphore.release() by a task that has the semaphore but holds no slot of it
\* (a release with no acquire before it, or a second release after one acquire)
StrayRelease(w) ==
    LET out == SemRelease(sems[wsem[w]])
    IN  /\ wpc[w] = "ready"
        /\ sems[wsem[w]].value < sems[wsem[w]].initial + MaxStray
        /\ sems' = [sems EXCEPT ![wsem[w]] = out.sem]
        /\ wpc' = [x \in Workers |->
                     IF x = out.woken THEN "holding" ELSE wpc[x]]
        /\ since' = [x \in Workers |->
                       IF x = out.woken THEN Some(now) ELSE since[x]]
        /\ result' = NoCall
        /\ scoped' = None
        /\ UNCHANGED <<envVars, cls_instance, inst, ninst, wsem, now,
                       threadVars, updated, first>>

\* ------------------------------------------ acquire_ / release_global_quota
\* the statistics after acquire_global_quota found the semaphore not locked
QuotaAcquired(stats) ==
    [stats EXCEPT !.total_requests = @ + 1,
                  !.concurrent_requests = @ + 1,
                  !.max_concurrent_reached =
                      IF @ >= stats.concurrent_requests + 1 THEN @
                      ELSE stats.concurrent_requests + 1]

AcquireGlobalQuota ==
    LET self == Handle
        acquired == Locked(sems[GetGlobalSemaphore(self).ret])
    IN  /\ self # NoObj
        /\ GetGlobalSemaphore(self).exc = NoExc
        /\ ~acquired => inst[self].stats.total_requests < MaxRequests
        /\ inst' = IF ~acquired
                   THEN [inst EXCEPT ![self].stats = QuotaAcquired(@)]
                   ELSE inst
        /\ result' = NoCall
        /\ scoped' = None
        /\ UNCHANGED <<envVars, cls_instance, ninst, sems, workerVars, now,
                       threadVars, updated, first>>

\* max(0, concurrent_requests - 1)
MutQuotaReleased(stats) ==
    [stats EXCEPT !.concurrent_requests = @ - 1]

QuotaReleased(stats) ==
    [stats EXCEPT !.concurrent_requests = IF @ - 1 > 0 THEN @ - 1 ELSE 0]

ReleaseGlobalQuota ==
    /\ Handle # NoObj
    /\ inst' = [inst EXCEPT ![Handle].stats = QuotaReleased(@)]
    /\ result' = NoCall
    /\ scoped' = None
    /\ UNCHANGED <<envVars, cls_instance, ninst, sems, workerVars, now,
                   threadVars, updated, first>>

\* ----------------------------------------------------------- update_credentials
\* os.environ["REPLICATE_API_TOKEN"] after `if api_token:` and its body
MutUpdatedEnvToken(api_token) == env_token

UpdatedEnvToken(api_token) ==
    IF TruthyStr(api_token) THEN api_token ELSE env_token

UpdateCredentials(api_token, global_max_concurrent) ==
    LET self == Handle
        old == inst[self].credentials
        tokened == IF TruthyStr(api_token)
                   THEN [old EXCEPT !.api_token = Val(api_token)] ELSE old
        limited == [tokened EXCEPT
                      !.global_max_concurrent = Val(global_max_concurrent)]
    IN  /\ self # NoObj
        /\ env_token' = UpdatedEnvToken(api_token)
        /\ logged' = IF TruthyStr(api_token) THEN Some(TokenLine(Val(api_token)))
                      ELSE logged
        /\ IF ~TruthyInt(global_max_concurrent)
           THEN /\ inst' = [inst EXCEPT ![self].credentials = tokened]
                /\ UNCHANGED sems
           ELSE IF SemaphoreRejects(Val(global_max_concurrent))
           THEN /\ inst' = [inst EXCEPT ![self].credentials = limited]
                /\ UNCHANGED sems
           ELSE /\ Len(sems) < MaxSems
                /\ sems' = Append(sems, NewSemaphore(Val(global_max_concurrent)))
                /\ inst' = [inst EXCEPT ![self].credentials = limited,
                                        ![self].semaphore = Len(sems) + 1]
        /\ result' = NoCall
        /\ updated' = IF TruthyInt(global_max_concurrent) THEN "limit"
                       ELSE IF TruthyStr(api_token) /\ updated = "nothing"
                       THEN "token" ELSE updated
        /\ first' = IF updated' = "nothing" THEN first ELSE None
        /\ scoped' = None
        /\ UNCHANGED <<env_limit, cls_instance, ninst, workerVars, now,
                       threadVars>>

\* ------------------------------------------------------------ status, time
\* manager.get_global_status(), on the object in cls._instance
MutGetGlobalStatus ==
    /\ cls_instance # NoObj
    /\ inst[cls_instance].stats # None
    /\ inst' = [inst EXCEPT ![cls_instance].stats.created_at = now]
    /\ result' = Called("get_global_status", GlobalStatus(cls_instance).exc,
                        NoObj, GlobalStatus(cls_instance).ret)
    /\ scoped' = None
    /\ UNCHANGED <<envVars, cls_instance, ninst, sems, workerVars, now,
                   threadVars, updated, first>>

GetGlobalStatus ==
    /\ cls_instance # NoObj
    /\ result' = Called("get_global_status", GlobalStatus(cls_instance).exc,
                        NoObj, GlobalStatus(cls_instance).ret)
    /\ scoped' = None
    /\ UNCHANGED <<envVars, cls_instance, inst, ninst, sems, workerVars, now,
                   threadVars, updated, first>>

\* get_global_status(), the module-level function: the constructor with no
\* arguments, then get_global_status on what it gave
ModuleGetGlobalStatus ==
    LET exc == ConstructorExc(None, None)
    IN  /\ Construct(None, None, "module.get_global_status")
        /\ UNCHANGED <<env_limit, workerVars, now, threadVars, updated>>
        /\ result' = IF exc # NoExc
                     THEN Called("module.get_global_status", exc, NoObj, None)
                     ELSE Called("module.get_global_status",
                                 GlobalStatus(cls_instance)'.exc, NoObj,
                                 GlobalStatus(cls_instance)'.ret)
        /\ scoped' = None

Tick ==
    /\ now < MaxTime
    /\ now' = now + 1
    /\ result' = NoCall
    /\ scoped' = None
    /\ UNCHANGED <<envVars, cls_instance, inst, ninst, sems, workerVars,
                   threadVars, updated, first>>

\* ----------------------------------------------------------------------- Spec
\* the gate: constructor calls, workers taking the semaphore and entering and
\* leaving `async with`, update_credentials, status reads
Next ==
    \/ \E t \in TokenArgs, l \in LimitArgs : CreateGlobalManager(t, l)
    \/ \E w \in Workers : WorkerGetSemaphore(w)
    \/ \E w \in Workers : ModuleGetGlobalSemaphore(w)
    \/ \E w \in Workers : Acquire(w)
    \/ \E w \in Workers : Release(w)
    \/ \E w \in Workers : Abort(w)
    \/ \E t \in TokenArgs, l \in LimitArgs : UpdateCredentials(t, l)
    \/ GetGlobalStatus
    \/ ModuleGetGlobalStatus

Spec == Init /\ [][Next]_vars

\* ------------------------------------------------------------------ SpecStats
\* the manager's own operations as time passes: constructor calls, the quota
\* bookkeeping, update_credentials, status reads
NextStats ==
    \/ \E t \in TokenArgs, l \in LimitArgs : CreateGlobalManager(t, l)
    \/ AcquireGlobalQuota
    \/ ReleaseGlobalQuota
    \/ \E t \in TokenArgs, l \in LimitArgs : UpdateCredentials(t, l)
    \/ GetGlobalStatus
    \/ Tick

SpecStats == Init /\ [][NextStats]_vars

\* ------------------------------------------------------------------- SpecLive
\* Spec, where a worker inside `async with` does come out of it: its protected
\* operation ends
HoldersRelease == \A w \in Workers : WF_vars(Release(w))

SpecLive == Init /\ [][Next]_vars /\ HoldersRelease

\* -------------------------------------------------------------------- SpecUse
\* one manager in use as time passes: constructor calls, workers entering and
\* leaving `async with`, the quota bookkeeping, update_credentials with a token
\* only (the semaphore is never replaced), status reads
NextUse ==
    \/ \E t \in TokenArgs, l \in LimitArgs : CreateGlobalManager(t, l)
    \/ \E w \in Workers : WorkerGetSemaphore(w)
    \/ \E w \in Workers : Acquire(w)
    \/ \E w \in Workers : Release(w)
    \/ \E w \in Workers : Abort(w)
    \/ AcquireGlobalQuota
    \/ ReleaseGlobalQuota
    \/ \E t \in {None, Some(TokA)} : UpdateCredentials(t, None)
    \/ GetGlobalStatus
    \/ ModuleGetGlobalStatus
    \/ Tick

SpecUse == Init /\ [][NextUse]_vars

\* ------------------------------------------------------------------ SpecTimed
\* the test's run: semaphore = manager.get_global_semaphore(), then every task
\* started together by asyncio.gather at start_time, taken as time 0
Gather ==
    LET got == GetGlobalSemaphore(Handle)
    IN  /\ Handle # NoObj
        /\ got.exc = NoExc
        /\ now = 0
        /\ \A w \in Workers : wpc[w] = "idle"
        /\ wsem' = [w \in Workers |-> got.ret]
        /\ wpc' = [w \in Workers |-> "ready"]
        /\ result' = NoCall
        /\ scoped' = None
        /\ UNCHANGED <<envVars, cls_instance, inst, ninst, sems, since, now,
                       threadVars, updated, first>>

\* the task's sleep is over: it leaves `async with`
SleepDone(w) ==
    /\ wpc[w] = "holding"
    /\ now >= Val(since[w]) + HoldTime
    /\ Release(w)

\* a task the event loop can run now: one about to acquire, or one whose sleep
\* is over
Runnable(w) ==
    \/ wpc[w] = "ready"
    \/ wpc[w] = "holding" /\ now >= Val(since[w]) + HoldTime

\* the event loop runs every ready task before it waits for the next timer:
\* time passes only when no task is runnable and some task is sleeping
TickTimed ==
    /\ \A w \in Workers : ~Runnable(w)
    /\ \E w \in Workers : wpc[w] = "holding"
    /\ now' = now + 1
    /\ result' = NoCall
    /\ scoped' = None
    /\ UNCHANGED <<envVars, cls_instance, inst, ninst, sems, workerVars,
                   threadVars, updated, first>>

NextTimed ==
    \/ \E t \in TokenArgs, l \in LimitArgs : CreateGlobalManager(t, l)
    \/ Gather
    \/ \E w \in Workers : Acquire(w)
    \/ \E w \in Workers : SleepDone(w)
    \/ TickTimed

SpecTimed == Init /\ [][NextTimed]_vars

\* ---------------------------------------------------------------- SpecRelease
\* the gate, with tasks that also call release() on the semaphore they were
\* handed without holding a slot
NextRelease ==
    \/ Next
    \/ \E w \in Workers : StrayRelease(w)

SpecRelease == Init /\ [][NextRelease]_vars

\* ---------------------------------------------------------------- SpecResolve
\* _get_credentials on every combination of arguments and environment
InitResolve ==
    /\ env_token \in EnvTokens
    /\ env_limit \in EnvLimits
    /\ InitManager

ResolveCall(payload_api_token, payload_max_concurrent) ==
    LET out == GetCredentials(payload_api_token, payload_max_concurrent)
    IN  /\ resolved' = [payload_api_token |-> payload_api_token,
                        payload_max_concurrent |-> payload_max_concurrent,
                        exc |-> out.exc,
                        credentials |-> out.ret]
        /\ UNCHANGED <<envVars, cls_instance, inst, ninst, sems, workerVars,
                       now, result, tpc, targs, tself, updated, first, scoped>>

NextResolve == \E t \in TokenArgs, l \in LimitArgs : ResolveCall(t, l)

SpecResolve == InitResolve /\ [][NextResolve]_vars

\* -------------------------------------------------------------------- SpecPar
\* GlobalReplicateConcurrencyManager(api_token, global_max_concurrent) called by
\* threads running in parallel: a thread switch can fall between any two
\* statements of __new__ and __init__
parFrame == <<env_limit, workerVars, now, result, resolved, updated, first,
              scoped>>

Goto(t, label) == tpc' = [tpc EXCEPT ![t] = label]

ThreadCall(t, api_token, global_max_concurrent) ==
    /\ tpc[t] = "idle"
    /\ targs' = [targs EXCEPT ![t] =
                   [api_token |-> api_token,
                    global_max_concurrent |-> global_max_concurrent]]
    /\ Goto(t, "new_test")
    /\ UNCHANGED <<env_token, logged, cls_instance, inst, ninst, sems, tself, parFrame>>

\* if cls._instance is None:
NewTest(t) ==
    /\ tpc[t] = "new_test"
    /\ Goto(t, IF cls_instance = NoObj THEN "new_alloc" ELSE "new_return")
    /\ UNCHANGED <<env_token, logged, cls_instance, inst, ninst, sems, targs, tself,
                   parFrame>>

\* cls._instance = super().__new__(cls)
NewAlloc(t) ==
    /\ tpc[t] = "new_alloc"
    /\ ninst' = ninst + 1
    /\ cls_instance' = ninst + 1
    /\ Goto(t, "new_return")
    /\ UNCHANGED <<env_token, logged, inst, sems, targs, tself, parFrame>>

\* return cls._instance
NewReturn(t) ==
    /\ tpc[t] = "new_return"
    /\ tself' = [tself EXCEPT ![t] = cls_instance]
    /\ Goto(t, "init_test")
    /\ UNCHANGED <<env_token, logged, cls_instance, inst, ninst, sems, targs, parFrame>>

\* if hasattr(self, '_initialized'): return
InitTest(t) ==
    /\ tpc[t] = "init_test"
    /\ Goto(t, IF AlreadyInitialized(tself[t]) THEN "done" ELSE "init_stats")
    /\ UNCHANGED <<env_token, logged, cls_instance, inst, ninst, sems, targs, tself,
                   parFrame>>

\* self._stats = {...}
InitStats(t) ==
    /\ tpc[t] = "init_stats"
    /\ inst' = [inst EXCEPT ![tself[t]].stats = FreshStats]
    /\ Goto(t, "init_creds")
    /\ UNCHANGED <<env_token, logged, cls_instance, ninst, sems, targs, tself, parFrame>>

\* self._credentials = self._get_credentials(api_token, global_max_concurrent)
InitCreds(t) ==
    LET creds == GetCredentials(targs[t].api_token,
                                targs[t].global_max_concurrent)
    IN  /\ tpc[t] = "init_creds"
        /\ IF creds.exc # NoExc
           THEN Goto(t, "raised") /\ UNCHANGED inst
           ELSE /\ inst' = [inst EXCEPT ![tself[t]].credentials = creds.ret]
                /\ Goto(t, "init_sem_test")
        /\ UNCHANGED <<env_token, logged, cls_instance, ninst, sems, targs, tself,
                       parFrame>>

\* if self._global_semaphore is None:
InitSemTest(t) ==
    /\ tpc[t] = "init_sem_test"
    /\ Goto(t, IF inst[tself[t]].semaphore = NoObj THEN "init_sem_make"
               ELSE "init_env")
    /\ UNCHANGED <<env_token, logged, cls_instance, inst, ninst, sems, targs, tself,
                   parFrame>>

\* self._global_semaphore = asyncio.Semaphore(self._credentials.global_max_concurrent)
InitSemMake(t) ==
    /\ tpc[t] = "init_sem_make"
    /\ IF SemaphoreRejects(Limit(tself[t]))
       THEN Goto(t, "raised") /\ UNCHANGED <<inst, sems>>
       ELSE /\ sems' = Append(sems, NewSemaphore(Limit(tself[t])))
            /\ inst' = [inst EXCEPT ![tself[t]].semaphore = Len(sems) + 1]
            /\ Goto(t, "init_env")
    /\ UNCHANGED <<env_token, logged, cls_instance, ninst, targs, tself, parFrame>>

\* os.environ["REPLICATE_API_TOKEN"] = self._credentials.api_token
InitEnv(t) ==
    /\ tpc[t] = "init_env"
    /\ env_token' = Some(inst[tself[t]].credentials.api_token)
    /\ Goto(t, "init_mark")
    /\ UNCHANGED <<logged, cls_instance, inst, ninst, sems, targs, tself,
                   parFrame>>

\* self._initialized = True, then the prints that end __init__
InitMark(t) ==
    /\ tpc[t] = "init_mark"
    /\ inst' = [inst EXCEPT ![tself[t]].initialized = TRUE]
    /\ logged' = Some(TokenLine(inst[tself[t]].credentials.api_token))
    /\ Goto(t, "done")
    /\ UNCHANGED <<env_token, cls_instance, ninst, sems, targs, tself, parFrame>>

NextPar ==
    \/ \E t \in Threads, a \in TokenArgs, l \in LimitArgs : ThreadCall(t, a, l)
    \/ \E t \in Threads : NewTest(t)
    \/ \E t \in Threads : NewAlloc(t)
    \/ \E t \in Threads : NewReturn(t)
    \/ \E t \in Threads : InitTest(t)
    \/ \E t \in Threads : InitStats(t)
    \/ \E t \in Threads : InitCreds(t)
    \/ \E t \in Threads : InitSemTest(t)
    \/ \E t \in Threads : InitSemMake(t)
    \/ \E t \in Threads : InitEnv(t)
    \/ \E t \in Threads : InitMark(t)

SpecPar == Init /\ [][NextPar]_vars

\* ------------------------------------------------------------------ properties
\* the workers between a successful acquire and its release
InFlight == {w \in Workers : wpc[w] = "holding"}

\* C1, as claimed: in every state the number of workers between a successful
\* acquire and its release is at most the manager's current limit (looked at
\* where that limit is a valid one, >= 1)
InFlightWithinCurrentLimit ==
    (Handle # NoObj /\ Limit(Handle) >= 1)
        => Cardinality(InFlight) <= Limit(Handle)

\* C1, amended: the workers holding a slot of one semaphore are never more than
\* the capacity that semaphore was created with, and until update_credentials is
\* given a new limit the workers in flight are never more than the current limit
InFlightWithinCapacity ==
    /\ \A s \in 1..Len(sems) : Cardinality(Holders(s)) <= sems[s].initial
    /\ (Handle # NoObj /\ updated # "limit")
          => Cardinality(InFlight) <= Limit(Handle)

InFlightAtCapacity ==
    /\ updated = "limit"
    /\ \E s \in 1..Len(sems) :
          /\ sems[s].initial >= 1
          /\ Cardinality(Holders(s)) = sems[s].initial
          /\ sems[s].waiters # << >>

\* C2: a constructor call made once the manager is initialized, whatever its
\* arguments, returns the first-created handle, and the credentials are still
\* those the first successful call resolved
SingletonIdentity ==
    [][\A t \in TokenArgs, l \in LimitArgs :
         (Handle # NoObj /\ updated = "nothing" /\ CreateGlobalManager(t, l))
             => /\ result'.exc = NoExc
                /\ result'.handle = first.handle
                /\ inst'[result'.handle].credentials = first.credentials]_vars

LaterCallReturned ==
    /\ result.op = "create"
    /\ result.exc = NoExc
    /\ updated = "nothing"
    /\ now > inst[result.handle].stats.created_at

\* C3: while workers only acquire and release, inUse = global_max_concurrent
\* minus the free count stays within 0..global_max_concurrent
InUseWithinCapacity ==
    (Handle # NoObj /\ updated # "limit")
        => /\ 0 <= CurrentConcurrent(Handle)
           /\ CurrentConcurrent(Handle) <= Limit(Handle)

GateFullWithWaiter ==
    /\ Handle # NoObj
    /\ updated # "limit"
    /\ Limit(Handle) >= 1
    /\ CurrentConcurrent(Handle) = Limit(Handle)
    /\ sems[inst[Handle].semaphore].waiters # << >>

\* C7, as claimed: once initialized, the limit and the capacity of the
\* semaphore are at least 1
LimitAtLeastOne ==
    Handle # NoObj
        => /\ Limit(Handle) >= 1
           /\ sems[inst[Handle].semaphore].initial >= 1

\* C8: a worker acquires, its protected operation raises, and nothing else
\* happens in between: get_global_status then reports the inUse it reported
\* before the acquire
ScopedReleaseOnAbort ==
    (scoped # None /\ scoped.exited)
        => /\ GlobalStatus(Handle).exc = NoExc
           /\ GlobalStatus(Handle).ret.current_concurrent = scoped.pre

AbortedBesideHolder ==
    /\ scoped # None
    /\ scoped.exited
    /\ scoped.pre >= 1
    /\ wpc[scoped.w] = "idle"

\* C9, as claimed: once initialized, get_global_status returns a snapshot with
\* available_slots = global_max_concurrent - current_concurrent and
\* utilization_percentage = 100 * current_concurrent / global_max_concurrent,
\* current_concurrent being the number of slots held
StatusArithmetic ==
    Handle # NoObj
        => LET st == GlobalStatus(Handle)
           IN  /\ st.exc = NoExc
               /\ st.ret.current_concurrent
                    = Cardinality(Holders(inst[Handle].semaphore))
               /\ st.ret.available_slots
                    = st.ret.global_max_concurrent - st.ret.current_concurrent
               /\ st.ret.utilization_percentage.num * st.ret.global_max_concurrent
                    = 100 * st.ret.current_concurrent
                          * st.ret.utilization_percentage.den

\* C10: no step lowers total_requests or max_concurrent_reached, and
\* concurrent_requests is never negative
StatsMonotone ==
    [][\A i \in InstIds :
         inst[i].stats # None
             => /\ inst'[i].stats # None
                /\ inst'[i].stats.total_requests >= inst[i].stats.total_requests
                /\ inst'[i].stats.max_concurrent_reached
                     >= inst[i].stats.max_concurrent_reached
                /\ inst[i].stats.concurrent_requests >= 0
                /\ inst'[i].stats.concurrent_requests >= 0]_vars

QuotaTakenAndReturned ==
    /\ Handle # NoObj
    /\ inst[Handle].stats.total_requests >= 2
    /\ inst[Handle].stats.max_concurrent_reached >= 1
    /\ inst[Handle].stats.concurrent_requests = 0

\* C4, as claimed: when the first constructor calls run in parallel and have
\* all returned, one manager object and one semaphore were created, and every
\* caller holds that object
ParallelFirstCallsShareOne ==
    (\A t \in Threads : tpc[t] = "done")
        => /\ ninst = 1
           /\ Len(sems) = 1
           /\ \A t \in Threads : tself[t] = cls_instance

\* the token and the limit a resolution is expected to give, by priority
TokenGiven(o) == o # None /\ Val(o) # EmptyStr

EnvLimitIsInteger == TokenGiven(env_limit) /\ ParseInt(Val(env_limit)).exc = NoExc

\* C5: the token is the caller's when given, else the environment's, else the
\* call fails with ValueError; the limit is the caller's when given, else the
\* environment's, else 60
CredentialPriority ==
    resolved # None
        => LET pt == resolved.payload_api_token
               pl == resolved.payload_max_concurrent
               token == IF TokenGiven(pt) THEN pt ELSE env_token
               limit == IF pl # None THEN Val(pl)
                        ELSE IF EnvLimitIsInteger
                        THEN ParseInt(Val(env_limit)).ret
                        ELSE DEFAULT_MAX_CONCURRENT
           IN  IF ~TokenGiven(token) THEN resolved.exc = ValueError
               ELSE /\ resolved.exc = NoExc
                    /\ resolved.credentials.api_token = Val(token)
                    /\ resolved.credentials.global_max_concurrent = limit

PayloadTokenWithEnvLimit ==
    /\ resolved # None
    /\ resolved.payload_api_token = Some(TokA)
    /\ resolved.payload_max_concurrent = None
    /\ env_token = Some(TokE)
    /\ env_limit = Some(<<"2">>)
    /\ resolved.exc = NoExc
    /\ resolved.credentials.api_token = TokA
    /\ resolved.credentials.global_max_concurrent = 2

\* C6, as claimed: with no limit from the caller and an environment limit that
\* is present but not a positive integer, resolution gives the default 60
MalformedEnvLimitFallsBack ==
    ( /\ resolved # None
      /\ resolved.payload_max_concurrent = None
      /\ TokenGiven(IF TokenGiven(resolved.payload_api_token)
                    THEN resolved.payload_api_token ELSE env_token)
      /\ env_limit # None
      /\ (EnvLimitIsInteger => ParseInt(Val(env_limit)).ret <= 0) )
        => /\ resolved.exc = NoExc
           /\ resolved.credentials.global_max_concurrent = DEFAULT_MAX_CONCURRENT

\* C11, as claimed: max_concurrent_reached never exceeds the manager's capacity
\* (looked at while update_credentials has not changed the limit)
MaxReachedWithinCapacity ==
    (Handle # NoObj /\ updated # "limit")
        => inst[Handle].stats.max_concurrent_reached <= Limit(Handle)

ReleaseNeverBelowZero ==
    [][\A w \in Workers :
         ( /\ Handle # NoObj
           /\ updated # "limit"
           /\ wpc[w] = "ready"
           /\ wsem[w] = inst[Handle].semaphore
           /\ CurrentConcurrent(Handle) = 0
           /\ StrayRelease(w) )
             => /\ CurrentConcurrent(Handle)' = 0
                /\ sems'[inst[Handle].semaphore].value = Limit(Handle)]_vars

\* C14: a constructor call made when the manager is initialized, whatever its
\* arguments, leaves the environment, the singleton, its credentials, its
\* statistics (created_at too), the semaphore, its free count and its waiters,
\* and every worker's slot as they were
LaterCallChangesNothing ==
    [][( /\ Handle # NoObj
         /\ result'.op = "create"
         /\ \E t \in TokenArgs, l \in LimitArgs : CreateGlobalManager(t, l) )
           => UNCHANGED <<envVars, cls_instance, inst, ninst, sems,
                          workerVars>>]_vars

LaterCallWhileInUse ==
    /\ result.op = "create"
    /\ result.exc = NoExc
    /\ now > inst[result.handle].stats.created_at
    /\ inst[result.handle].stats.total_requests >= 1
    /\ updated = "token"
    /\ \E w \in Workers : wpc[w] = "holding"

\* the tasks started together have all left `async with`
AllDone == now > 0 /\ \A w \in Workers : wpc[w] = "idle"

\* the rounds NumWorkers tasks need when c of them run per round
Rounds(c) == (NumWorkers + c - 1) \div c

WaitersAdmitted ==
    \A w \in Workers : (wpc[w] = "waiting") ~> (wpc[w] = "holding")

\* the same for the semaphores that have a slot at all: the waiters queue in
\* arrival order and each release admits the first of them
WaitersAdmittedWithCapacity ==
    \A w \in Workers :
        (wpc[w] = "waiting" /\ sems[wsem[w]].initial >= 1)
            ~> (wpc[w] = "holding")

\* C17: in every initialized state REPLICATE_API_TOKEN in the environment is the
\* token of the manager's credentials: the one the first successful constructor
\* call resolved, or the one update_credentials was given since
EnvTokenIsCredentialsToken ==
    Handle # NoObj
        => env_token = Some(inst[Handle].credentials.api_token)

EnvTokenReplaced ==
    /\ Handle # NoObj
    /\ updated = "token"
    /\ inst[Handle].credentials.api_token = TokA
    /\ env_token = Some(TokA)

\* C18: update_credentials with a limit L >= 1 makes a new semaphore of capacity
\* L with every slot free and leaves the old ones as they are, so the status
\* then reports L, 0 in use and L available whatever is held; with limit None or
\* 0 it leaves the semaphore and the limit alone; and a worker that leaves
\* `async with` on an old semaphore changes nothing of the current one
UpdateReplacesGate ==
    [][/\ (Handle # NoObj /\ result' = NoCall /\ UNCHANGED wpc)
          => \A t \in TokenArgs, l \in LimitArgs :
               UpdateCredentials(t, l)
                 => IF l # None /\ Val(l) >= 1
                    THEN /\ inst'[Handle].semaphore \notin 1..Len(sems)
                         /\ sems'[inst'[Handle].semaphore] = NewSemaphore(Val(l))
                         /\ \A s \in 1..Len(sems) : sems'[s] = sems[s]
                         /\ UNCHANGED workerVars
                         /\ GlobalStatus(Handle)'.exc = NoExc
                         /\ GlobalStatus(Handle)'.ret.global_max_concurrent = Val(l)
                         /\ GlobalStatus(Handle)'.ret.current_concurrent = 0
                         /\ GlobalStatus(Handle)'.ret.available_slots = Val(l)
                    ELSE IF l = None \/ Val(l) = 0
                    THEN /\ UNCHANGED <<sems, workerVars>>
                         /\ inst'[Handle].semaphore = inst[Handle].semaphore
                         /\ Limit(Handle)' = Limit(Handle)
                    ELSE TRUE
       /\ (Handle # NoObj /\ result' = NoCall)
          => \A w \in Workers :
               ( /\ wpc[w] = "holding"
                 /\ wsem[w] # inst[Handle].semaphore
                 /\ (Release(w) \/ Abort(w)) )
                   => /\ sems'[inst[Handle].semaphore]
                           = sems[inst[Handle].semaphore]
                      /\ inst' = inst
                      /\ CurrentConcurrent(Handle)' = CurrentConcurrent(Handle)]_vars

GateReplacedWhileHeld ==
    /\ Handle # NoObj
    /\ updated = "limit"
    /\ Limit(Handle) >= 1
    /\ CurrentConcurrent(Handle) = 0
    /\ sems[inst[Handle].semaphore].value = Limit(Handle)
    /\ \E w \in Workers :
          wpc[w] = "holding" /\ wsem[w] # inst[Handle].semaphore

\* C19, as claimed: in every state an acquire, a release or a status read can
\* see, the recorded limit is the capacity the current semaphore was made with
LimitMatchesCapacity ==
    Handle # NoObj
        => Limit(Handle) = sems[inst[Handle].semaphore].initial

\* C20, as claimed: each admission of a worker through the global semaphore
\* adds one to total_requests, and max_concurrent_reached is at least the number
\* of slots then held
AdmissionsCounted ==
    [][\A w \in Workers :
         ( /\ Handle # NoObj
           /\ wsem[w] = inst[Handle].semaphore
           /\ Acquire(w)
           /\ wpc'[w] = "holding" )
             => /\ inst'[Handle].stats.total_requests
                     = inst[Handle].stats.total_requests + 1
                /\ inst'[Handle].stats.max_concurrent_reached
                     >= Cardinality(Holders(inst[Handle].semaphore))']_vars

\* C21, as claimed: a status read, by the method or by the module-level
\* function, in any state, leaves the singleton, its credentials, semaphore and
\* statistics, every semaphore and the environment as they were
StatusReadChangesNothing ==
    [][( \/ result'.op = "get_global_status" /\ GetGlobalStatus
         \/ result'.op = "module.get_global_status" /\ ModuleGetGlobalStatus )
           => UNCHANGED <<envVars, cls_instance, inst, ninst, sems,
                          workerVars>>]_vars

\* C21, amended: the method changes nothing in any state, and the module-level
\* function changes nothing once the manager is initialized; before that it
\* runs the constructor first, which makes the singleton object and starts to
\* initialize it
StatusReadChangesNothingOnceInitialized ==
    [][/\ (result'.op = "get_global_status" /\ GetGlobalStatus)
          => UNCHANGED <<envVars, cls_instance, inst, ninst, sems, workerVars>>
       /\ (result'.op = "module.get_global_status" /\ ModuleGetGlobalStatus)
          => IF Handle # NoObj
             THEN UNCHANGED <<envVars, cls_instance, inst, ninst, sems,
                              workerVars>>
             ELSE /\ cls_instance' # NoObj
                  /\ inst'[cls_instance'].stats = FreshStats
                  /\ (result'.exc = NoExc) = (Handle' # NoObj)]_vars

StatusReadWhileInUse ==
    /\ result.op = "module.get_global_status"
    /\ result.exc = NoExc
    /\ result.status.total_requests >= 1
    /\ result.status.current_concurrent >= 1
    /\ result.status.uptime_seconds >= 1
    /\ updated = "token"

\* ---------------------------------------------------------------------- SpecLog
\* The two calls that print a token, with tokens of every length from 1 to
\* MaxTokenLen (or none) and every limit argument.
LogTokenArgs == {None} \cup {Some(t) : t \in LogTokens}

NextLog ==
    \/ \E t \in LogTokenArgs, l \in LimitArgs : CreateGlobalManager(t, l)
    \/ \E t \in LogTokenArgs, l \in LimitArgs : UpdateCredentials(t, l)

SpecLog == Init /\ [][NextLog]_vars

\* the token part of the printed line: the line without its trailing "..."
Shown == SubSeq(Val(logged), 1, Len(Val(logged)) - 3)

\* C22, as claimed: whatever the length of the token, the line printed by
\* create_global_manager and by update_credentials shows a strict prefix of the
\* manager's token, never the whole token
TokenNeverLoggedInFull ==
    (Handle # NoObj /\ logged # None)
        => LET api_token == inst[Handle].credentials.api_token
           IN  /\ Len(Shown) < Len(api_token)
               /\ Shown = SubSeq(api_token, 1, Len(Shown))

\* what the code does print: the first TOKEN_SHOWN characters of the token, the
\* whole token when it has no more than that
TokenLoggedUpToShown ==
    (Handle # NoObj /\ logged # None)
        => LET api_token == inst[Handle].credentials.api_token
           IN  /\ Shown = SubSeq(api_token, 1, Len(Shown))
               /\ Len(Shown) = IF Len(api_token) < TOKEN_SHOWN
                               THEN Len(api_token) ELSE TOKEN_SHOWN

\* C23: a constructor call on a manager that is not initialized fails when no
\* token can be resolved or when the resolved limit is one asyncio.Semaphore
\* rejects: it then raises, makes no semaphore, leaves the manager
\* uninitialized and the environment's token as it was, and
\* get_global_semaphore on the object raises the not-initialized error.  Every
\* other such call, the first one or one that follows failed calls, resolves
\* the credentials from its own arguments and initializes the manager with
\* them.
FailedCreateLeavesUninitialized ==
    [][(result'.op = "create" /\ Handle = NoObj)
         => \A t \in TokenArgs, l \in LimitArgs :
              CreateGlobalManager(t, l)
                => LET creds == GetCredentials(t, l)
                   IN  IF \/ creds.exc # NoExc
                          \/ creds.ret.global_max_concurrent < 0
                       THEN /\ result'.exc = ValueError
                            /\ Handle' = NoObj
                            /\ sems' = sems
                            /\ inst'[cls_instance'].semaphore = NoObj
                            /\ env_token' = env_token
                            /\ GetGlobalSemaphore(cls_instance)'.exc
                                 = RuntimeError
                       ELSE /\ result'.exc = NoExc
                            /\ Handle' # NoObj
                            /\ result'.handle = Handle'
                            /\ inst'[Handle'].credentials = creds.ret
                            /\ sems'[inst'[Handle'].semaphore].initial
                                 = creds.ret.global_max_concurrent
                            /\ env_token' = Some(creds.ret.api_token)]_vars

\* after a call that failed on the limit, with no token in the environment,
\* get_global_semaphore on the object has raised the not-initialized error
AccessAfterFailedCreate ==
    /\ result.op = "get_global_semaphore"
    /\ result.exc = RuntimeError
    /\ cls_instance # NoObj
    /\ inst[cls_instance].credentials # None
    /\ inst[cls_instance].credentials.global_max_concurrent < 0
    /\ env_token = None

====
